---- MODULE Spec2Model ----
(***************************************************************************)
(* Model of example/download_douyin_stream.py: main() fans out one         *)
(* download_live_stream coroutine per requested quality with               *)
(* asyncio.gather; every coroutine resolves the room itself (web strategy, *)
(* then app strategy), selects a stream URL, spawns ffmpeg and waits for   *)
(* it.  A session's position is the await it is suspended at; one action   *)
(* is one resumption of the coroutine, run up to its next await or to its  *)
(* return.  What a session prints last is its reported outcome.            *)
(*                                                                         *)
(* The resolver library, ffmpeg and the signal SIGINT are the environment: *)
(* their results are chosen nondeterministically.  Path.mkdir (line 21)    *)
(* and the DouyinLiveStream constructor (line 24) are taken to succeed.    *)
(* SIGINT is handled as asyncio.run (line 199) handles it: the main task   *)
(* is cancelled, and the tasks it waits for with it.                       *)
(*                                                                         *)
(* The functions of text are checked apart from the interleaving of the    *)
(* sessions: NamingSpec applies lines 62-117 (timestamp, file name,        *)
(* ffmpeg argument list) to chosen inputs while the wall clock advances,   *)
(* and DiagSpec applies the slicing of error texts (lines 38, 86, 132).    *)
(***************************************************************************)
EXTENDS Integers, Sequences, FiniteSets, TLC

\* ---------------------------------------------------------------- bounds
\* Number of requested qualities (a prefix of quality_list, line 184).
NumQualities == 2

\* Seconds the wall clock may advance during the runs that are observed.
MaxSeconds == 1
\* Characters by which an upstream error text may exceed the longest slice
\* the program takes of one.
MaxOver == 1

\* ------------------------------------------------------------- constants
\* status code of a room that is broadcasting (line 40, line 42).
LIVE == 2
\* status code of a room that is not broadcasting; also the default used
\* when the resolver's result has no 'status' key (line 41).
NOT_BROADCASTING == 4

\* Length of the slice taken of each strategy's error (line 38).
CauseSlice == 50
\* Length of the slice taken of the process's stderr (line 132).
ErrorMsgSlice == 200

\* quality_list of main (line 184).
quality_list == <<"OD", "UHD", "HD", "SD", "LD">>
Qualities == 1..NumQualities

\* Python's None for an absent URL, and the URLs the resolver may return.
None == "None"
FlvUrl == "http://pull/stream.flv"
M3u8Url == "http://pull/stream.m3u8"
\* Results of fetch_web_stream_data / fetch_app_stream_data: a dict whose
\* 'status' key may be missing (status = <<>>) or hold a code.
StatusValues == {<<>>, <<LIVE>>, <<NOT_BROADCASTING>>}
NoData == [src |-> "none", status |-> <<>>]
\* Results of fetch_stream_url: an object with flv_url and m3u8_url, each of
\* which may be missing (an empty string or None).
StreamData == [flv_url : {"", FlvUrl}, m3u8_url : {None, M3u8Url}]
NoStreamData == [flv_url |-> "unset", m3u8_url |-> "unset"]
\* Exit codes of the external process.
ExitCodes == {0, 1}

VARIABLES
    mainPc,        \* position of main(): "start", "gather", "done",
                   \*   "cancelling" (its tasks are being cancelled),
                   \*   "raised" (the run ended with an exception)
    pc,            \* pc[q]: the await session q is suspended at, or how it ended
    webCalls,      \* webCalls[q]: calls of fetch_web_stream_data by session q
    appCalls,      \* appCalls[q]: calls of fetch_app_stream_data by session q
    webRes,        \* webRes[q]: "none", "ok" or "raised" as seen by session q
    appRes,        \* appRes[q]: likewise for the app strategy
    data,          \* data[q]: the resolver result session q uses
    selCalls,      \* selCalls[q]: calls of fetch_stream_url by session q
    stream_data,   \* stream_data[q]: result of fetch_stream_url
    stream_url,    \* stream_url[q]: the URL chosen at line 53
    spawnCalls,    \* spawnCalls[q]: calls of create_subprocess_exec
    launched,      \* launched[q]: external processes actually started
    proc,          \* proc[q]: "none", "running" or "exited"
    returncode,    \* returncode[q]: exit code of q's process (-1: none yet)
    report,        \* report[q]: the terminal messages printed for quality q
    sigint,        \* a SIGINT has been received during the run
    inflightAtSig, \* inflightAtSig[q]: q was in flight when a SIGINT arrived
    now,           \* the wall clock read by datetime.now() (line 62)
    started,       \* qualities of the current run that have passed line 62
    earlier,       \* the capture request built before the latest one
    latest,        \* the capture request built last (lines 62-117)
    diag           \* the diagnostic text reported last (lines 38, 86, 132)

\* The variables of the functions of text: file naming, the command line
\* and the reported diagnostics.
namingVars == <<now, started, earlier, latest>>
pureVars == <<now, started, earlier, latest, diag>>
\* The variables of the sessions and of main.
sessionVars == <<mainPc, pc, webCalls, appCalls, webRes, appRes, data,
                 selCalls, stream_data, stream_url, spawnCalls, launched,
                 proc, returncode, report, sigint, inflightAtSig>>

vars == <<mainPc, pc, webCalls, appCalls, webRes, appRes, data, selCalls,
          stream_data, stream_url, spawnCalls, launched, proc, returncode,
          report, sigint, inflightAtSig, now, started, earlier, latest, diag>>

\* Positions of a session whose task has started and has not ended.
InFlight == {"start", "webCall", "appCall", "selCall", "spawn", "running"}
\* How a session's task can end: returned normally, ended by CancelledError,
\* or ended by another exception that left the coroutine.
Terminal == {"done", "cancelled", "raised"}

\* ------------------------------------------------------------------ text
\* A text (a Python str) is a sequence of one-character strings; a
\* character outside ASCII is written by its code point.
Digit(d) == <<"0", "1", "2", "3", "4", "5", "6", "7", "8", "9">>[d + 1]
TwoDigits(n) == <<Digit((n \div 10) % 10), Digit(n % 10)>>
FourDigits(n) == TwoDigits(n \div 100) \o TwoDigits(n % 100)

\* str(n) of a natural number (line 111).
RECURSIVE Str(_)
Str(n) == IF n < 10 THEN <<Digit(n)>> ELSE Str(n \div 10) \o <<Digit(n % 10)>>

\* s.endswith(suffix), sub in s, s.replace(a, b) for characters a and b,
\* and the slice s[:n].
EndsWith(s, suffix) ==
    /\ Len(s) >= Len(suffix)
    /\ SubSeq(s, Len(s) - Len(suffix) + 1, Len(s)) = suffix
Contains(s, sub) ==
    \E i \in 1..(Len(s) - Len(sub) + 1) : SubSeq(s, i, i + Len(sub) - 1) = sub
Replace(s, a, b) == [i \in 1..Len(s) |-> IF s[i] = a THEN b ELSE s[i]]
Slice(s, n) == SubSeq(s, 1, IF Len(s) < n THEN Len(s) ELSE n)

\* The labels of quality_list (line 184) as texts.
QualityText ==
    <<<<"O", "D">>, <<"U", "H", "D">>, <<"H", "D">>, <<"S", "D">>, <<"L", "D">>>>
\* output_dir of main (line 173).
output_dir == <<"d", "o", "w", "n", "l", "o", "a", "d", "s">>
\* Stream URLs the resolver may hand out: a direct FLV stream, an HLS
\* playlist, and an HLS playlist whose URL goes on after ".m3u8".
FlvUrlText == <<"h", "/", "s", ".", "f", "l", "v">>
M3u8UrlText == <<"h", "/", "s", ".", "m", "3", "u", "8">>
M3u8QueryUrlText == <<"h", "/", "s", ".", "m", "3", "u", "8", "?", "k">>
StreamUrls == {FlvUrlText, M3u8UrlText, M3u8QueryUrlText}
\* The duration argument: None (<<>>) or a number of seconds; main passes
\* 600 (line 174).
Durations == {<<>>, <<0>>, <<600>>}
\* data['anchor_name']: the key may be missing (<<>>).
AnchorNames == {<<>>, <<<<"a", "/", "b">>>>}

\* datetime.now(): a calendar date, the second of the day and the
\* microsecond of the second.
Microseconds == {0, 500000}
StartOfClock ==
    [year |-> 2024, month |-> 12, day |-> 31, second |-> 59, microsecond |-> 0]
\* No capture request built yet; no diagnostic reported yet.
NoRequest == [quality |-> <<>>]
NoDiag == [path |-> "none"]

\* ------------------------------------------------------------- helpers
\* data.get('status', 4)
Status(d) == IF d.status = <<>> THEN NOT_BROADCASTING ELSE d.status[1]

\* Python truthiness of an optional string.
Truthy(u) == u \notin {None, ""}

\* stream_data.flv_url or stream_data.m3u8_url
ChooseUrl(sd) == IF Truthy(sd.flv_url) THEN sd.flv_url ELSE sd.m3u8_url

\* A terminal message printed for a quality, named by the line that prints it
\* and, for line 86, by the exception it shows.
Msg(line, e) == [line |-> line, e |-> e]

Init ==
    /\ mainPc = "start"
    /\ pc = [q \in Qualities |-> "idle"]
    /\ webCalls = [q \in Qualities |-> 0]
    /\ appCalls = [q \in Qualities |-> 0]
    /\ webRes = [q \in Qualities |-> "none"]
    /\ appRes = [q \in Qualities |-> "none"]
    /\ data = [q \in Qualities |-> NoData]
    /\ selCalls = [q \in Qualities |-> 0]
    /\ stream_data = [q \in Qualities |-> NoStreamData]
    /\ stream_url = [q \in Qualities |-> None]
    /\ spawnCalls = [q \in Qualities |-> 0]
    /\ launched = [q \in Qualities |-> 0]
    /\ proc = [q \in Qualities |-> "none"]
    /\ returncode = [q \in Qualities |-> -1]
    /\ report = [q \in Qualities |-> <<>>]
    /\ sigint = FALSE
    /\ inflightAtSig = [q \in Qualities |-> FALSE]
    /\ now = StartOfClock
    /\ started = {}
    /\ earlier = NoRequest
    /\ latest = NoRequest
    /\ diag = NoDiag

\* ------------------------------------------------ download_live_stream
\* The session prints the terminal message m for its quality and returns.
Finish(q, m) ==
    /\ pc' = [pc EXCEPT ![q] = "done"]
    /\ report' = [report EXCEPT ![q] = Append(@, m)]
    /\ mainPc' = mainPc

\* An exception that leaves the coroutine: the session's task ends with it,
\* gather hands it to main, main ends with it and asyncio.run cancels the
\* tasks that are still running.  Nothing is printed for the quality.
EscapeSession(q, e) ==
    /\ pc' = [pc EXCEPT ![q] = "raised"]
    /\ report' = report
    /\ mainPc' = "cancelling"

\* except Exception as e (lines 85-88): the error is printed for the quality
\* and the coroutine returns normally.
OnException(q, e) == Finish(q, Msg(86, e))

\* Lines 41-50 with the status check of line 42 left out.
AfterResolveNoCheck(q, d) ==
    /\ pc' = [pc EXCEPT ![q] = "selCall"]
    /\ selCalls' = [selCalls EXCEPT ![q] = @ + 1]
    /\ report' = report
    /\ mainPc' = mainPc

\* Lines 41-50 with the default of line 41 taken as LIVE.
AfterResolveDefaultLive(q, d) ==
    IF d.status # <<>> /\ d.status[1] # LIVE
    THEN Finish(q, Msg(43, "")) /\ selCalls' = selCalls
    ELSE /\ pc' = [pc EXCEPT ![q] = "selCall"]
         /\ selCalls' = [selCalls EXCEPT ![q] = @ + 1]
         /\ report' = report
         /\ mainPc' = mainPc

\* Lines 41-50: a result whose status is not LIVE ends the session with the
\* not-live message; otherwise fetch_stream_url is called and awaited.
AfterResolve(q, d) ==
    IF Status(d) # LIVE
    THEN Finish(q, Msg(43, "")) /\ selCalls' = selCalls
    ELSE /\ pc' = [pc EXCEPT ![q] = "selCall"]
         /\ selCalls' = [selCalls EXCEPT ![q] = @ + 1]
         /\ report' = report
         /\ mainPc' = mainPc

\* Lines 21-32: the task's first step, up to the await of the web strategy.
Begin(q) ==
    /\ mainPc = "gather"
    /\ pc[q] = "start"
    /\ pc' = [pc EXCEPT ![q] = "webCall"]
    /\ webCalls' = [webCalls EXCEPT ![q] = @ + 1]
    /\ UNCHANGED <<mainPc, appCalls, webRes, appRes, data, selCalls,
                   stream_data, stream_url, spawnCalls, launched, proc,
                   returncode, report, sigint, inflightAtSig>>
    /\ UNCHANGED pureVars

\* Line 32 returns a result: it becomes data, and lines 41-50 follow.
WebReturn(q) ==
    /\ mainPc = "gather"
    /\ pc[q] = "webCall"
    /\ \E st \in StatusValues :
          LET d == [src |-> "web", status |-> st] IN
          /\ webRes' = [webRes EXCEPT ![q] = "ok"]
          /\ data' = [data EXCEPT ![q] = d]
          /\ AfterResolve(q, d)
    /\ UNCHANGED <<webCalls, appCalls, appRes, stream_data, stream_url,
                   spawnCalls, launched, proc, returncode, sigint,
                   inflightAtSig>>
    /\ UNCHANGED pureVars

\* Web strategy failed, and the web strategy is called a second time.
WebRaiseRetry(q) ==
    /\ mainPc = "gather"
    /\ pc[q] = "webCall"
    /\ webCalls[q] < 3
    /\ webRes' = [webRes EXCEPT ![q] = "raised"]
    /\ webCalls' = [webCalls EXCEPT ![q] = @ + 1]
    /\ UNCHANGED <<mainPc, pc, appCalls, appRes, data, selCalls, stream_data,
                   stream_url, spawnCalls, launched, proc, returncode, report,
                   sigint, inflightAtSig>>
    /\ UNCHANGED pureVars

\* Web strategy failed, and the error is reported without trying the app
\* strategy.
WebRaiseNoFallback(q) ==
    /\ mainPc = "gather"
    /\ pc[q] = "webCall"
    /\ webRes' = [webRes EXCEPT ![q] = "raised"]
    /\ OnException(q, "WebFailed")
    /\ UNCHANGED <<webCalls, appCalls, appRes, data, selCalls, stream_data,
                   stream_url, spawnCalls, launched, proc, returncode, sigint,
                   inflightAtSig>>
    /\ UNCHANGED pureVars

\* Lines 33-36: line 32 raises; the app strategy is called and awaited.
WebRaise(q) ==
    /\ mainPc = "gather"
    /\ pc[q] = "webCall"
    /\ webRes' = [webRes EXCEPT ![q] = "raised"]
    /\ pc' = [pc EXCEPT ![q] = "appCall"]
    /\ appCalls' = [appCalls EXCEPT ![q] = @ + 1]
    /\ UNCHANGED <<mainPc, webCalls, appRes, data, selCalls, stream_data,
                   stream_url, spawnCalls, launched, proc, returncode, report,
                   sigint, inflightAtSig>>
    /\ UNCHANGED pureVars

\* Line 36 returns a result: it becomes data, and lines 41-50 follow.
AppReturn(q) ==
    /\ mainPc = "gather"
    /\ pc[q] = "appCall"
    /\ \E st \in StatusValues :
          LET d == [src |-> "app", status |-> st] IN
          /\ appRes' = [appRes EXCEPT ![q] = "ok"]
          /\ data' = [data EXCEPT ![q] = d]
          /\ AfterResolve(q, d)
    /\ UNCHANGED <<webCalls, appCalls, webRes, stream_data, stream_url,
                   spawnCalls, launched, proc, returncode, sigint,
                   inflightAtSig>>
    /\ UNCHANGED pureVars

\* Both strategies failed, and the session returns without a message.
AppRaiseSilent(q) ==
    /\ mainPc = "gather"
    /\ pc[q] = "appCall"
    /\ appRes' = [appRes EXCEPT ![q] = "raised"]
    /\ pc' = [pc EXCEPT ![q] = "done"]
    /\ UNCHANGED <<mainPc, webCalls, appCalls, webRes, data, selCalls,
                   stream_data, stream_url, spawnCalls, launched, proc,
                   returncode, report, sigint, inflightAtSig>>
    /\ UNCHANGED pureVars

\* Lines 37-38: line 36 raises too; the aggregated exception is raised and
\* handled at line 85.
AppRaise(q) ==
    /\ mainPc = "gather"
    /\ pc[q] = "appCall"
    /\ appRes' = [appRes EXCEPT ![q] = "raised"]
    /\ OnException(q, "WebAndAppFailed")
    /\ UNCHANGED <<webCalls, appCalls, webRes, data, selCalls, stream_data,
                   stream_url, spawnCalls, launched, proc, returncode, sigint,
                   inflightAtSig>>
    /\ UNCHANGED pureVars

\* Lines 53-81 and 102-120 with the check of line 55 left out.
AfterSelectNoCheck(q, sd) ==
    /\ pc' = [pc EXCEPT ![q] = "spawn"]
    /\ spawnCalls' = [spawnCalls EXCEPT ![q] = @ + 1]
    /\ report' = report
    /\ mainPc' = mainPc

\* Lines 53-81 and 102-120: no URL ends the session with the no-address
\* message; otherwise the ffmpeg command is built and
\* create_subprocess_exec is called and awaited.
AfterSelect(q, sd) ==
    IF ~Truthy(ChooseUrl(sd))
    THEN Finish(q, Msg(56, "")) /\ spawnCalls' = spawnCalls
    ELSE /\ pc' = [pc EXCEPT ![q] = "spawn"]
         /\ spawnCalls' = [spawnCalls EXCEPT ![q] = @ + 1]
         /\ report' = report
         /\ mainPc' = mainPc

\* Line 50 returns stream_data; line 53 chooses the URL.
SelectReturn(q) ==
    /\ mainPc = "gather"
    /\ pc[q] = "selCall"
    /\ \E sd \in StreamData :
          /\ stream_data' = [stream_data EXCEPT ![q] = sd]
          /\ stream_url' = [stream_url EXCEPT ![q] = ChooseUrl(sd)]
          /\ AfterSelect(q, sd)
    /\ UNCHANGED <<webCalls, appCalls, webRes, appRes, data, selCalls,
                   launched, proc, returncode, sigint, inflightAtSig>>
    /\ UNCHANGED pureVars

\* Line 50 raises: handled at line 85.
SelectRaise(q) ==
    /\ mainPc = "gather"
    /\ pc[q] = "selCall"
    /\ OnException(q, "SelectError")
    /\ UNCHANGED <<webCalls, appCalls, webRes, appRes, data, selCalls,
                   stream_data, stream_url, spawnCalls, launched, proc,
                   returncode, sigint, inflightAtSig>>
    /\ UNCHANGED pureVars

\* ------------------------------------------------- download_with_ffmpeg
\* Lines 120-127: the process is started; communicate() is awaited.
SpawnOk(q) ==
    /\ mainPc = "gather"
    /\ pc[q] = "spawn"
    /\ pc' = [pc EXCEPT ![q] = "running"]
    /\ launched' = [launched EXCEPT ![q] = @ + 1]
    /\ proc' = [proc EXCEPT ![q] = "running"]
    /\ UNCHANGED <<mainPc, webCalls, appCalls, webRes, appRes, data, selCalls,
                   stream_data, stream_url, spawnCalls, returncode, report,
                   sigint, inflightAtSig>>
    /\ UNCHANGED pureVars

\* The tool cannot be started, and the exception is not handled in the
\* session.
SpawnFailPropagates(q) ==
    /\ mainPc = "gather"
    /\ pc[q] = "spawn"
    /\ EscapeSession(q, "LaunchError")
    /\ UNCHANGED <<webCalls, appCalls, webRes, appRes, data, selCalls,
                   stream_data, stream_url, spawnCalls, launched, proc,
                   returncode, sigint, inflightAtSig>>
    /\ UNCHANGED pureVars

\* The tool cannot be started, and create_subprocess_exec is called again.
SpawnFailRetry(q) ==
    /\ mainPc = "gather"
    /\ pc[q] = "spawn"
    /\ spawnCalls[q] < 3
    /\ spawnCalls' = [spawnCalls EXCEPT ![q] = @ + 1]
    /\ UNCHANGED <<mainPc, pc, webCalls, appCalls, webRes, appRes, data,
                   selCalls, stream_data, stream_url, launched, proc,
                   returncode, report, sigint, inflightAtSig>>
    /\ UNCHANGED pureVars

\* Line 120 raises (the tool cannot be started): the exception leaves
\* download_with_ffmpeg at line 81 and is handled at line 85.
SpawnFail(q) ==
    /\ mainPc = "gather"
    /\ pc[q] = "spawn"
    /\ OnException(q, "LaunchError")
    /\ UNCHANGED <<webCalls, appCalls, webRes, appRes, data, selCalls,
                   stream_data, stream_url, spawnCalls, launched, proc,
                   returncode, sigint, inflightAtSig>>
    /\ UNCHANGED pureVars

\* The external process ends with an exit code (environment).
ProcExit(q) ==
    /\ proc[q] = "running"
    /\ proc' = [proc EXCEPT ![q] = "exited"]
    /\ \E rc \in ExitCodes : returncode' = [returncode EXCEPT ![q] = rc]
    /\ UNCHANGED <<mainPc, pc, webCalls, appCalls, webRes, appRes, data,
                   selCalls, stream_data, stream_url, spawnCalls, launched,
                   report, sigint, inflightAtSig>>
    /\ UNCHANGED pureVars

\* Lines 127-133 with the test of line 129 always taken as true.
CommunicateReturnNoCheck(q) ==
    /\ mainPc = "gather"
    /\ pc[q] = "running"
    /\ proc[q] = "exited"
    /\ Finish(q, Msg(130, ""))
    /\ UNCHANGED <<webCalls, appCalls, webRes, appRes, data, selCalls,
                   stream_data, stream_url, spawnCalls, launched, proc,
                   returncode, sigint, inflightAtSig>>
    /\ UNCHANGED pureVars

\* Lines 127-133: communicate() returns once the process has ended; the
\* exit code is classified and the session returns through line 81.
CommunicateReturn(q) ==
    /\ mainPc = "gather"
    /\ pc[q] = "running"
    /\ proc[q] = "exited"
    /\ IF returncode[q] = 0
       THEN Finish(q, Msg(130, ""))
       ELSE Finish(q, Msg(133, "stderr"))
    /\ UNCHANGED <<webCalls, appCalls, webRes, appRes, data, selCalls,
                   stream_data, stream_url, spawnCalls, launched, proc,
                   returncode, sigint, inflightAtSig>>
    /\ UNCHANGED pureVars

\* ----------------------------------------------------------------- main
\* Lines 184-193: one coroutine per requested quality is handed to
\* asyncio.gather, which wraps each in a task; main awaits them all.
MainGather ==
    /\ mainPc = "start"
    /\ mainPc' = "gather"
    /\ pc' = [q \in Qualities |-> "start"]
    /\ UNCHANGED <<webCalls, appCalls, webRes, appRes, data, selCalls,
                   stream_data, stream_url, spawnCalls, launched, proc,
                   returncode, report, sigint, inflightAtSig>>
    /\ UNCHANGED pureVars

\* Lines 193-195 if gather returned as soon as one task had returned.
MainDoneFirst ==
    /\ mainPc = "gather"
    /\ \E q \in Qualities : pc[q] = "done"
    /\ mainPc' = "done"
    /\ UNCHANGED <<pc, webCalls, appCalls, webRes, appRes, data, selCalls,
                   stream_data, stream_url, spawnCalls, launched, proc,
                   returncode, report, sigint, inflightAtSig>>
    /\ UNCHANGED pureVars

\* Lines 193-195: gather returns when every task has returned; main prints
\* the all-done message and returns.
MainDone ==
    /\ mainPc = "gather"
    /\ \A q \in Qualities : pc[q] = "done"
    /\ mainPc' = "done"
    /\ UNCHANGED <<pc, webCalls, appCalls, webRes, appRes, data, selCalls,
                   stream_data, stream_url, spawnCalls, launched, proc,
                   returncode, report, sigint, inflightAtSig>>
    /\ UNCHANGED pureVars

\* ------------------------------------------------------ SIGINT (line 199)
\* The sessions in flight when a SIGINT arrives: those that have begun and
\* are suspended at an await.
MarkInFlight ==
    inflightAtSig' =
        [q \in Qualities |-> inflightAtSig[q] \/ pc[q] \in InFlight \ {"start"}]

\* A SIGINT arrives while main awaits gather.  asyncio.run handles the
\* signal itself: its handler does not raise KeyboardInterrupt into the
\* running code but cancels the main task, and cancelling a task that
\* awaits gather cancels every task gather is waiting for.
SigIntCancel ==
    /\ mainPc = "gather"
    /\ sigint' = TRUE
    /\ mainPc' = "cancelling"
    /\ MarkInFlight
    /\ UNCHANGED <<pc, webCalls, appCalls, webRes, appRes, data, selCalls,
                   stream_data, stream_url, spawnCalls, launched, proc,
                   returncode, report>>
    /\ UNCHANGED pureVars

\* A cancelled task is resumed with CancelledError at its await.  It is a
\* BaseException and no KeyboardInterrupt: neither line 83 nor line 85
\* catches it, so the coroutine ends without printing anything for its
\* quality (line 84 is never reached this way).  A process that is running
\* is left to itself.
Cancelled(q) ==
    /\ mainPc = "cancelling"
    /\ pc[q] \in InFlight
    /\ pc' = [pc EXCEPT ![q] = "cancelled"]
    /\ UNCHANGED <<mainPc, webCalls, appCalls, webRes, appRes, data, selCalls,
                   stream_data, stream_url, spawnCalls, launched, proc,
                   returncode, report, sigint, inflightAtSig>>
    /\ UNCHANGED pureVars

\* Every task has ended after the cancellation: asyncio.run raises and
\* line 195 is never reached.
MainRaise ==
    /\ mainPc = "cancelling"
    /\ \A q \in Qualities : pc[q] \in Terminal
    /\ mainPc' = "raised"
    /\ UNCHANGED <<pc, webCalls, appCalls, webRes, appRes, data, selCalls,
                   stream_data, stream_url, spawnCalls, launched, proc,
                   returncode, report, sigint, inflightAtSig>>
    /\ UNCHANGED pureVars

\* Line 199: the exit status of the program.  It is 0 when main returned;
\* when asyncio.run raised KeyboardInterrupt the interpreter ends by the
\* signal, which the shell reports as 130.
ExitStatus ==
    CASE mainPc = "done" -> 0
      [] mainPc = "raised" -> 130
      [] OTHER -> -1

\* ----------------------------------------------------------------- spec
Next ==
    \/ MainGather
    \/ MainDone
    \/ MainRaise
    \/ SigIntCancel
    \/ \E q \in Qualities :
          \/ Begin(q)
          \/ WebReturn(q)
          \/ WebRaise(q)
          \/ AppReturn(q)
          \/ AppRaise(q)
          \/ SelectReturn(q)
          \/ SelectRaise(q)
          \/ SpawnOk(q)
          \/ SpawnFail(q)
          \/ ProcExit(q)
          \/ CommunicateReturn(q)
          \/ Cancelled(q)

Spec == Init /\ [][Next]_vars

\* ------------------------------------------- file naming and command line
\* datetime.now().strftime("%Y%m%d_%H%M%S") (line 62): the microsecond is
\* not part of the text.
strftime(t) ==
    FourDigits(t.year) \o TwoDigits(t.month) \o TwoDigits(t.day) \o <<"_">>
        \o TwoDigits(t.second \div 3600) \o TwoDigits((t.second \div 60) % 60)
        \o TwoDigits(t.second % 60)

\* data.get('anchor_name', 'unknown').replace('/', '_') (line 63).
AnchorName(a) ==
    Replace(IF a = <<>> THEN <<"u", "n", "k", "n", "o", "w", "n">> ELSE a[1],
            "/", "_")

\* The two containers.
Mp4 == <<"m", "p", "4">>
Flv == <<"f", "l", "v">>

\* Lines 66-69: the extension follows from the URL.
Ext(url) ==
    IF EndsWith(url, <<".", "m", "3", "u", "8">>) \/ Contains(url, <<"m", "3", "u", "8">>)
    THEN Mp4
    ELSE Flv

\* Line 72 without the quality in the name.
OutputFileNoQuality(anchor_name, quality, timestamp, ext) ==
    output_dir \o <<"/">> \o anchor_name \o <<"_">> \o timestamp \o <<".">> \o ext

\* Line 72, and str() of the path at line 81.
OutputFile(anchor_name, quality, timestamp, ext) ==
    output_dir \o <<"/">> \o anchor_name \o <<"_">> \o quality \o <<"_">>
        \o timestamp \o <<".">> \o ext

\* if duration: (lines 75, 110) is false for None and for 0.
TruthyDuration(duration) == duration # <<>> /\ duration[1] # 0

\* Arguments of ffmpeg that the properties below speak of.
FlagBsf == <<"-", "b", "s", "f", ":", "a">>
AacAdtsToAsc == <<"a", "a", "c", "_", "a", "d", "t", "s", "t", "o", "a", "s", "c">>
FlagT == <<"-", "t">>
FlagF == <<"-", "f">>

\* Lines 102-117 with the audio filter given only for the mp4 container.
FfmpegCmdBsfForMp4Only(url, output_file, duration) ==
    <<<<"f", "f", "m", "p", "e", "g">>, <<"-", "i">>, url,
      <<"-", "c">>, <<"c", "o", "p", "y">>>>
    \o (IF EndsWith(output_file, <<".">> \o Mp4) THEN <<FlagBsf, AacAdtsToAsc>> ELSE <<>>)
    \o (IF TruthyDuration(duration) THEN <<FlagT, Str(duration[1])>> ELSE <<>>)
    \o <<FlagF, IF EndsWith(output_file, <<".">> \o Mp4) THEN Mp4 ELSE Flv,
         <<"-", "y">>, output_file>>

\* Lines 102-117 with the format chosen by the URL's suffix.
FfmpegCmdFormatByUrlSuffix(url, output_file, duration) ==
    <<<<"f", "f", "m", "p", "e", "g">>, <<"-", "i">>, url,
      <<"-", "c">>, <<"c", "o", "p", "y">>, FlagBsf, AacAdtsToAsc>>
    \o (IF TruthyDuration(duration) THEN <<FlagT, Str(duration[1])>> ELSE <<>>)
    \o <<FlagF, IF EndsWith(url, <<".", "m", "3", "u", "8">>) THEN Mp4 ELSE Flv,
         <<"-", "y">>, output_file>>

\* Lines 102-117: the argument list of the external process.
FfmpegCmd(url, output_file, duration) ==
    <<<<"f", "f", "m", "p", "e", "g">>, <<"-", "i">>, url,
      <<"-", "c">>, <<"c", "o", "p", "y">>, FlagBsf, AacAdtsToAsc>>
    \o (IF TruthyDuration(duration) THEN <<FlagT, Str(duration[1])>> ELSE <<>>)
    \o <<FlagF, IF EndsWith(output_file, <<".">> \o Mp4) THEN Mp4 ELSE Flv,
         <<"-", "y">>, output_file>>

\* Lines 62-117 for the session of quality q of the current run, given the
\* chosen stream URL, the duration argument and the anchor name of the
\* resolver's result: the output path and the command line are built.
\* The runs are for one room, whose anchor name stays the same, and main
\* passes one duration to every session of a run (lines 187-190).
BuildRequest(q, url, duration, anchor) ==
    /\ q \notin started
    /\ latest # NoRequest => AnchorName(anchor) = latest.anchor_name
    /\ started # {} => duration = latest.duration
    /\ LET timestamp == strftime(now)
           anchor_name == AnchorName(anchor)
           ext == Ext(url)
           output_file == OutputFile(anchor_name, QualityText[q], timestamp, ext)
       IN  latest' = [quality |-> QualityText[q],
                      stream_url |-> url,
                      duration |-> duration,
                      anchor_name |-> anchor_name,
                      now |-> now,
                      first |-> (started = {}),
                      output_file |-> output_file,
                      cmd |-> FfmpegCmd(url, output_file, duration)]
    /\ earlier' = IF latest = NoRequest
                  THEN NoRequest
                  ELSE [quality |-> latest.quality,
                        now |-> latest.now,
                        output_file |-> latest.output_file]
    /\ started' = started \cup {q}
    /\ UNCHANGED <<now, diag, sessionVars>>

\* The wall clock advances within the second.
ClockTick ==
    /\ \E m \in Microseconds :
          /\ m > now.microsecond
          /\ now' = [now EXCEPT !.microsecond = m]
    /\ UNCHANGED <<started, earlier, latest, diag, sessionVars>>

\* The wall clock reaches the next second.
ClockSecond ==
    /\ now.second < StartOfClock.second + MaxSeconds
    /\ now' = [now EXCEPT !.second = @ + 1, !.microsecond = 0]
    /\ UNCHANGED <<started, earlier, latest, diag, sessionVars>>

\* Line 199: the program is started again once its run has ended.
NewRun ==
    /\ started # {}
    /\ started' = {}
    /\ UNCHANGED <<now, earlier, latest, diag, sessionVars>>

NamingNext ==
    \/ ClockTick
    \/ ClockSecond
    \/ NewRun
    \/ \E q \in Qualities, url \in StreamUrls, duration \in Durations,
          anchor \in AnchorNames :
          BuildRequest(q, url, duration, anchor)

NamingSpec == Init /\ [][NamingNext]_vars

\* cmd holds the argument a; cmd holds the flag f followed by the value v.
HasArg(cmd, a) == \E i \in 1..Len(cmd) : cmd[i] = a
HasFlagValue(cmd, f, v) == \E i \in 1..(Len(cmd) - 1) : cmd[i] = f /\ cmd[i + 1] = v

\* ------------------------------------------------------------ diagnostics
\* Lengths of upstream error texts: empty, and around the two slices.
ErrLengths ==
    {0} \cup {l + d : l \in {CauseSlice, ErrorMsgSlice}, d \in (-1)..MaxOver}
\* An error text of n characters that starts with the character c.
ErrorText(n, c) == [i \in 1..n |-> IF i = 1 THEN c ELSE Digit(i % 10)]
\* str(e) of the exceptions the resolver and the spawn may raise.
ErrorTexts == {ErrorText(n, c) : n \in ErrLengths, c \in {"E", "W"}}
\* A byte that is not valid UTF-8, and what the process may have written to
\* stderr: bytes of a text, possibly after such a byte.
BadByte == "0xFF"
StderrOutputs == ErrorTexts \cup {<<BadByte>> \o t : t \in ErrorTexts}
\* stderr.decode('utf-8', errors='ignore') (line 132): invalid bytes are
\* dropped.
Decode(bytes) == SelectSeq(bytes, LAMBDA b : b # BadByte)

\* The fixed parts of the message of line 38.
WebAppFailedText ==
    <<"W", "e", "b", "U+548C", "A", "p", "p", "U+65B9", "U+6CD5", "U+90FD",
      "U+5931", "U+8D25", ":", " ", "W", "e", "b", "=">>
AppText == <<",", " ", "A", "p", "p", "=">>
\* Line 38: the text of the exception raised when both strategies failed.
AggregatedError(e1, e2) ==
    WebAppFailedText \o Slice(e1, CauseSlice) \o AppText \o Slice(e2, CauseSlice)

\* Lines 129-133 for a non-zero exit: the start of the decoded stderr is
\* printed for the quality.
FfmpegError(stderr) ==
    /\ diag' = [path |-> "ffmpeg",
                upstream |-> <<stderr>>,
                detail |-> Slice(Decode(stderr), ErrorMsgSlice)]
    /\ UNCHANGED <<namingVars, sessionVars>>

\* Lines 32-38 and 85-86: both strategies raised, with the texts e1 and e2;
\* the aggregated exception is printed for the quality.
BothStrategiesFailed(e1, e2) ==
    /\ diag' = [path |-> "resolution",
                upstream |-> <<e1, e2>>,
                detail |-> AggregatedError(e1, e2)]
    /\ UNCHANGED <<namingVars, sessionVars>>

\* Lines 85-86 for an exception with the text e raised by fetch_stream_url
\* (line 50) or by create_subprocess_exec (line 120): {e} is printed for
\* the quality.
OtherException(where, e) ==
    /\ diag' = [path |-> where, upstream |-> <<e>>, detail |-> e]
    /\ UNCHANGED <<namingVars, sessionVars>>

DiagNext ==
    \/ \E stderr \in StderrOutputs : FfmpegError(stderr)
    \/ \E e1, e2 \in ErrorTexts : BothStrategiesFailed(e1, e2)
    \/ \E where \in {"selection", "launch"}, e \in ErrorTexts :
          OtherException(where, e)

DiagSpec == Init /\ [][DiagNext]_vars

\* ------------------------------------------------------------- outcomes
\* The outcome a terminal message stands for: line 43 not live, line 56 no
\* stream address, line 84 stopped by the user, line 86 an error (the
\* aggregated web-and-app error is the resolution failure), line 130
\* recording complete, line 133 ffmpeg error.
Outcome(m) ==
    CASE m.line = 43 -> "NOT_LIVE"
      [] m.line = 56 -> "CAPTURE_FAILED"
      [] m.line = 84 -> "INTERRUPTED"
      [] m.line = 86 /\ m.e = "WebAndAppFailed" -> "RESOLUTION_FAILED"
      [] m.line = 86 /\ m.e # "WebAndAppFailed" -> "CAPTURE_FAILED"
      [] m.line = 130 -> "COMPLETED"
      [] m.line = 133 -> "CAPTURE_FAILED"

\* The outcomes reported for quality q, in the order they were printed.
Outcomes(q) == [i \in 1..Len(report[q]) |-> Outcome(report[q][i])]

FailureOutcomes == {"RESOLUTION_FAILED", "CAPTURE_FAILED"}

\* Session q failed: it reported exactly one outcome, a failure.
Failed(q) == Len(report[q]) = 1 /\ Outcomes(q)[1] \in FailureOutcomes

\* A step of session q other than the delivery of a cancellation.
SessionStep(q) ==
    \/ Begin(q) \/ WebReturn(q) \/ WebRaise(q) \/ AppReturn(q) \/ AppRaise(q)
    \/ SelectReturn(q) \/ SelectRaise(q) \/ SpawnOk(q) \/ SpawnFail(q)
    \/ CommunicateReturn(q)

\* Calls made in the whole run.
RECURSIVE SumUpTo(_, _)
SumUpTo(f, n) == IF n = 0 THEN 0 ELSE f[n] + SumUpTo(f, n - 1)
Total(f) == SumUpTo(f, NumQualities)

\* --------------------------------------------------------------- claims
\* C1: cross-session isolation.  As long as no SIGINT has arrived, whatever
\* failures the sessions have had (resolver exception, missing endpoint,
\* launch failure, non-zero exit): no task is cancelled and none ends with
\* an exception, main is not aborted, every session that is in flight can
\* take its next step unless it waits for its own running process, and
\* every finished session whose own process exited 0 reported COMPLETED
\* and nothing else.
C1_Isolation ==
    ~sigint =>
        /\ mainPc \in {"start", "gather", "done"}
        /\ \A q \in Qualities :
              /\ pc[q] \notin {"cancelled", "raised"}
              /\ (pc[q] \in InFlight /\ ~(pc[q] = "running" /\ proc[q] = "running"))
                    => ENABLED SessionStep(q)
              /\ (pc[q] = "done" /\ proc[q] = "exited" /\ returncode[q] = 0)
                    => Outcomes(q) = <<"COMPLETED">>

\* C1 witness: the run ended with one session failed and a sibling, whose
\* process exited 0, COMPLETED.
C1_Witness ==
    /\ ~sigint
    /\ mainPc = "done"
    /\ \E q, r \in Qualities :
          /\ q # r
          /\ Failed(q)
          /\ returncode[r] = 0
          /\ Outcomes(r) = <<"COMPLETED">>

\* C2 as stated: in the whole run the web strategy is called at most once
\* and the app strategy at most once.
C2_ResolvedOncePerRun == Total(webCalls) <= 1 /\ Total(appCalls) <= 1

\* C2 amended: resolution is performed once per requested quality.  Each
\* session calls the web strategy at most once and the app strategy at most
\* once, and what a session does next is decided by its own result: its
\* quality is reported not live only if its own result is not LIVE, a
\* resolution failure only if both of its own calls raised, and it asks
\* for a stream address only if its own result is LIVE.
C2_ResolvedOncePerSession ==
    \A q \in Qualities :
        /\ webCalls[q] <= 1
        /\ appCalls[q] <= 1
        /\ pc[q] \in (InFlight \cup Terminal) \ {"start", "cancelled"} => webCalls[q] = 1
        /\ (Len(report[q]) = 1 /\ Outcomes(q)[1] = "NOT_LIVE")
              => data[q] # NoData /\ Status(data[q]) # LIVE
        /\ (Len(report[q]) = 1 /\ Outcomes(q)[1] = "RESOLUTION_FAILED")
              => webRes[q] = "raised" /\ appRes[q] = "raised" /\ data[q] = NoData
        /\ selCalls[q] > 0 => data[q] # NoData /\ Status(data[q]) = LIVE

\* C2 witness: two sessions of one run have each called the web strategy
\* and got different results, one LIVE and one not.
C2_Witness ==
    \E q, r \in Qualities :
        /\ webCalls[q] = 1 /\ webCalls[r] = 1
        /\ webRes[q] = "ok" /\ webRes[r] = "ok"
        /\ Status(data[q]) = LIVE
        /\ Outcomes(r) = <<"NOT_LIVE">>

\* C3 as stated: no external process has been asked for or is running
\* while any resolver call of the run is still in flight or to come.
C3_RunBarrier ==
    \A q, r \in Qualities :
        spawnCalls[q] > 0 => pc[r] \notin {"start", "webCall", "appCall"}

\* C3 amended: the barrier is per session.  An external process is asked
\* for in session q only after q's own resolution has returned a LIVE
\* result and q's own endpoint selection has returned; nothing is running
\* for q while q's own resolver call is in flight.  Siblings may still be
\* resolving.
C3_SessionBarrier ==
    \A q \in Qualities :
        /\ spawnCalls[q] > 0 =>
              /\ (webRes[q] = "ok" \/ appRes[q] = "ok")
              /\ data[q] # NoData
              /\ Status(data[q]) = LIVE
              /\ selCalls[q] = 1
              /\ stream_data[q] \in StreamData
        /\ pc[q] \in {"start", "webCall", "appCall", "selCall"} =>
              spawnCalls[q] = 0 /\ launched[q] = 0 /\ proc[q] = "none"

\* C3 witness: a process is running for one quality while a sibling's
\* resolver call is in flight.
C3_Witness ==
    \E q, r \in Qualities :
        proc[q] = "running" /\ pc[r] \in {"webCall", "appCall"}

\* C4 as stated: when the run has ended, by main returning or by the run
\* raising after a SIGINT, every requested quality has exactly one reported
\* outcome.
C4_OneOutcomePerQuality ==
    mainPc \in {"done", "raised"} => \A q \in Qualities : Len(report[q]) = 1

\* C5: join before return.  main is at its all-done point only when every
\* session has returned and no session's external process is running; and
\* a run that ends by raising has waited for every task to end too.
C5_JoinBeforeReturn ==
    /\ mainPc = "done" =>
          \A q \in Qualities : pc[q] = "done" /\ proc[q] # "running"
    /\ mainPc = "raised" => \A q \in Qualities : pc[q] \in Terminal

\* C5 witness: main is at its all-done point after one session failed and
\* a sibling's process ran to its end.
C5_Witness ==
    /\ mainPc = "done"
    /\ \E q, r \in Qualities :
          q # r /\ Failed(q) /\ launched[r] = 1 /\ proc[r] = "exited"

\* C6: fallback resolution, per session.  The app strategy is called iff
\* the web strategy raised; the aggregated resolution error is reported iff
\* both raised; a web result (LIVE or not) is used alone and the app
\* strategy is then never called; after a web failure an app result is
\* used alone.
C6_Fallback ==
    \A q \in Qualities :
        /\ appCalls[q] > 0 <=> webRes[q] = "raised"
        /\ (\E i \in 1..Len(report[q]) : report[q][i] = Msg(86, "WebAndAppFailed"))
              <=> (webRes[q] = "raised" /\ appRes[q] = "raised")
        /\ webRes[q] = "ok" =>
              appCalls[q] = 0 /\ appRes[q] = "none" /\ data[q].src = "web"
        /\ (webRes[q] = "raised" /\ appRes[q] = "ok") => data[q].src = "app"
        /\ data[q].src = "web" => webRes[q] = "ok"
        /\ data[q].src = "app" => appRes[q] = "ok"

\* C6 witness: one session used a web result that is not LIVE without
\* calling the app strategy, and a sibling fell back to the app strategy
\* and used its result.
C6_Witness ==
    \E q, r \in Qualities :
        /\ webRes[q] = "ok" /\ Status(data[q]) # LIVE /\ pc[q] = "done"
        /\ appCalls[q] = 0
        /\ webRes[r] = "raised" /\ appRes[r] = "ok" /\ data[r].src = "app"

\* C7: a session for which both strategies raised has ended, its quality is
\* reported RESOLUTION_FAILED and nothing else, and it has neither asked
\* for a stream address nor tried to launch a process.  So when both
\* strategies fail for every session of the run, every quality ends
\* RESOLUTION_FAILED and no process is launched in the run.
C7_ResolutionFailed ==
    \A q \in Qualities :
        (webRes[q] = "raised" /\ appRes[q] = "raised") =>
            /\ pc[q] = "done"
            /\ Outcomes(q) = <<"RESOLUTION_FAILED">>
            /\ selCalls[q] = 0
            /\ spawnCalls[q] = 0
            /\ launched[q] = 0
            /\ proc[q] = "none"

\* C7 witness: the run ended with both strategies failed in every session.
C7_Witness ==
    /\ mainPc = "done"
    /\ \A q \in Qualities :
          webRes[q] = "raised" /\ appRes[q] = "raised"
          /\ Outcomes(q) = <<"RESOLUTION_FAILED">>

\* C8: a session whose resolver result has a status other than LIVE, or no
\* status at all, has ended with NOT_LIVE and nothing else, has not asked
\* for a stream address and has launched nothing (so no process has created
\* an output file for it).
C8_NotLive ==
    \A q \in Qualities :
        (data[q] # NoData /\ (data[q].status = <<>> \/ data[q].status[1] # 2)) =>
            /\ pc[q] = "done"
            /\ Outcomes(q) = <<"NOT_LIVE">>
            /\ selCalls[q] = 0
            /\ spawnCalls[q] = 0
            /\ launched[q] = 0
            /\ proc[q] = "none"

\* C8 witness: the run ended with every quality NOT_LIVE, one of them from
\* a result without a status.
C8_Witness ==
    /\ mainPc = "done"
    /\ \A q \in Qualities : data[q] # NoData /\ Outcomes(q) = <<"NOT_LIVE">>
    /\ \E q \in Qualities : data[q].status = <<>>

\* C9: no capture without an endpoint.  A process has been asked for only
\* with a non-empty URL, the flv URL if there is one and else the m3u8 URL;
\* a session whose stream data has neither URL has ended with a failure and
\* has launched nothing.
C9_NoCaptureWithoutUrl ==
    \A q \in Qualities :
        /\ spawnCalls[q] > 0 =>
              /\ stream_url[q] \notin {None, ""}
              /\ stream_url[q] = IF stream_data[q].flv_url \notin {None, ""}
                                 THEN stream_data[q].flv_url
                                 ELSE stream_data[q].m3u8_url
        /\ (/\ stream_data[q] \in StreamData
            /\ stream_data[q].flv_url \in {None, ""}
            /\ stream_data[q].m3u8_url \in {None, ""}) =>
              /\ pc[q] = "done"
              /\ Failed(q)
              /\ spawnCalls[q] = 0
              /\ launched[q] = 0
              /\ proc[q] = "none"

\* C9 witness: one quality without any URL has failed while a sibling with
\* only an m3u8 URL was captured to the end.
C9_Witness ==
    \E q, r \in Qualities :
        /\ stream_data[q] \in StreamData /\ stream_url[q] \in {None, ""}
        /\ Failed(q)
        /\ stream_url[r] = M3u8Url
        /\ Outcomes(r) = <<"COMPLETED">>

\* C10 as stated: every session that was in flight when a SIGINT arrived
\* ends with the outcome INTERRUPTED and no other.
C10_InterruptedOutcome ==
    \A q \in Qualities :
        (inflightAtSig[q] /\ pc[q] \in Terminal) => Outcomes(q) = <<"INTERRUPTED">>

\* C13 as stated: whenever the run has ended and at least one requested
\* quality ended COMPLETED or INTERRUPTED, the program exits zero (it exits
\* non-zero only if every quality ended in a failure).
C13_ExitStatus ==
    (/\ mainPc \in {"done", "raised"}
     /\ \E q \in Qualities : Outcomes(q) \in {<<"COMPLETED">>, <<"INTERRUPTED">>})
        => ExitStatus = 0

\* C14: exit-status classification.  A session that returned after its
\* process was spawned reported COMPLETED iff the process exited 0 and
\* CAPTURE_FAILED iff it exited non-zero.  A session reaches the await of
\* the spawn (STARTING) only from endpoint selection, the await of
\* communicate (RUNNING) only from STARTING, reports after a spawn only
\* from RUNNING, and once ended never changes its position or its report.
C14_ExitClassification ==
    /\ [](\A q \in Qualities :
            (launched[q] > 0 /\ pc[q] = "done") =>
                /\ proc[q] = "exited"
                /\ Outcomes(q) = <<"COMPLETED">> <=> returncode[q] = 0
                /\ Outcomes(q) = <<"CAPTURE_FAILED">> <=> returncode[q] # 0)
    /\ [][\A q \in Qualities :
            /\ (pc'[q] = "spawn" /\ pc[q] # "spawn") => pc[q] = "selCall"
            /\ (pc'[q] = "running" /\ pc[q] # "running") => pc[q] = "spawn"
            /\ (launched[q] > 0 /\ report'[q] # report[q]) => pc[q] = "running"
            /\ pc[q] \in Terminal => (pc'[q] = pc[q] /\ report'[q] = report[q])
         ]_vars

\* C14 witness: one session ended COMPLETED on exit code 0 and a sibling
\* ended CAPTURE_FAILED on exit code 1.
C14_Witness ==
    \E q, r \in Qualities :
        /\ launched[q] = 1 /\ returncode[q] = 0 /\ Outcomes(q) = <<"COMPLETED">>
        /\ launched[r] = 1 /\ returncode[r] = 1
        /\ report[r] = <<Msg(133, "stderr")>>

\* C15: launch failure.  A session that returned after asking for a process
\* that was never started reported the launch error, which is a
\* CAPTURE_FAILED, and only that; it never waited in communicate (no
\* process of its own exists); and the error stayed in the session: unless
\* a SIGINT arrived, no task ended with an exception and main was not
\* aborted.
C15_LaunchFailure ==
    /\ \A q \in Qualities :
          (spawnCalls[q] > 0 /\ launched[q] = 0 /\ pc[q] \in Terminal \ {"cancelled"}) =>
              /\ pc[q] = "done"
              /\ report[q] = <<Msg(86, "LaunchError")>>
              /\ Outcomes(q) = <<"CAPTURE_FAILED">>
              /\ proc[q] = "none"
    /\ ~sigint => mainPc \in {"start", "gather", "done"}

\* C15 witness: the run ended with a quality whose process could not be
\* started.
C15_Witness ==
    /\ mainPc = "done"
    /\ \E q \in Qualities :
          report[q] = <<Msg(86, "LaunchError")>> /\ launched[q] = 0

\* C20: no automatic retry.  For each requested quality the run asks for at
\* most one process and starts at most one, asks for a stream address at
\* most once and calls each resolution strategy at most once; and once a
\* session has reported a resolution failure or a capture failure, no
\* further call of a strategy, of the selection or of the spawn is made
\* for that quality.
C20_NoRetry ==
    /\ [](\A q \in Qualities :
            /\ launched[q] <= 1
            /\ spawnCalls[q] <= 1
            /\ selCalls[q] <= 1
            /\ webCalls[q] <= 1
            /\ appCalls[q] <= 1)
    /\ [][\A q \in Qualities :
            Failed(q) =>
                /\ webCalls'[q] = webCalls[q]
                /\ appCalls'[q] = appCalls[q]
                /\ selCalls'[q] = selCalls[q]
                /\ spawnCalls'[q] = spawnCalls[q]
                /\ launched'[q] = launched[q]
                /\ report'[q] = report[q]
         ]_vars

\* C20 witness: the run ended with one quality whose process exited
\* non-zero and one whose two strategies both raised, each step having
\* been made exactly once.
C20_Witness ==
    /\ mainPc = "done"
    /\ \E q, r \in Qualities :
          /\ report[q] = <<Msg(133, "stderr")>>
          /\ launched[q] = 1 /\ spawnCalls[q] = 1
          /\ Outcomes(r) = <<"RESOLUTION_FAILED">>
          /\ webCalls[r] = 1 /\ appCalls[r] = 1

\* C11 as stated: the command line of a capture request carries the
\* duration cap "-t" with the value of the duration whenever a duration is
\* given (it is not None), and carries no "-t" when the duration is
\* omitted.
C11_DurationFlag ==
    latest # NoRequest =>
        /\ latest.duration # <<>> =>
              HasFlagValue(latest.cmd, FlagT, Str(latest.duration[1]))
        /\ latest.duration = <<>> => ~HasArg(latest.cmd, FlagT)

C18_ConditionalFilter ==
    latest # NoRequest =>
        (HasArg(latest.cmd, FlagBsf) <=>
            (Contains(latest.stream_url, <<"m", "3", "u", "8">>)
                /\ EndsWith(latest.output_file, <<".">> \o Mp4)))

\* C18 amended: the command line includes the audio bitstream filter
\* "-bsf:a aac_adtstoasc" for every capture request, whichever the shape
\* of the stream URL and the container: for an HLS playlist written to
\* mp4 and for a direct stream written to flv alike.
C18_FilterAlways ==
    latest # NoRequest =>
        /\ HasFlagValue(latest.cmd, FlagBsf, AacAdtsToAsc)
        /\ Len(SelectSeq(latest.cmd, LAMBDA a : a = FlagBsf)) = 1

\* C18 witness: a direct FLV stream is captured into the flv container
\* with the filter on its command line.
C18_Witness ==
    /\ latest # NoRequest
    /\ latest.stream_url = FlvUrlText
    /\ EndsWith(latest.output_file, <<".">> \o Flv)
    /\ HasFlagValue(latest.cmd, FlagBsf, AacAdtsToAsc)

\* C19: container consistency.  The extension of the output file follows
\* from the URL alone: mp4 when "m3u8" occurs in the URL, flv otherwise;
\* the "-f" flag of the command line names the container of that
\* extension, and the output path is the last argument.
C19_ContainerConsistency ==
    latest # NoRequest =>
        LET ext == IF Contains(latest.stream_url, <<"m", "3", "u", "8">>)
                   THEN Mp4
                   ELSE Flv
        IN  /\ EndsWith(latest.output_file, <<".">> \o ext)
            /\ HasFlagValue(latest.cmd, FlagF, ext)
            /\ Len(SelectSeq(latest.cmd, LAMBDA a : a = FlagF)) = 1
            /\ latest.cmd[Len(latest.cmd)] = latest.output_file

\* C19 witness: the URL of an HLS playlist that goes on after ".m3u8" is
\* captured into an mp4 file with "-f mp4".
C19_Witness ==
    /\ latest # NoRequest
    /\ latest.stream_url = M3u8QueryUrlText
    /\ EndsWith(latest.output_file, <<".">> \o Mp4)
    /\ HasFlagValue(latest.cmd, FlagF, Mp4)

\* C16 as stated: when the process exited non-zero, the reported detail is
\* the last slice of the decoded diagnostic stream: a suffix of it, of at
\* most 200 characters, and the whole text when that has 200 characters or
\* fewer.
C16_ErrorDetailIsSuffix ==
    diag.path = "ffmpeg" =>
        LET text == Decode(diag.upstream[1])
        IN  /\ Len(diag.detail) <= ErrorMsgSlice
            /\ Len(text) <= ErrorMsgSlice => diag.detail = text
            /\ Len(text) > ErrorMsgSlice =>
                  diag.detail = SubSeq(text, Len(text) - ErrorMsgSlice + 1, Len(text))

\* C17 as stated: on every failure path the text reported for the quality
\* is bounded, whatever the length of the upstream text: it is no longer
\* than the longest slice the program takes, and the aggregated resolution
\* error holds each strategy's cause cut to at most 50 characters.
C17_BoundedDiagnostics ==
    diag # NoDiag =>
        /\ Len(diag.detail) <= ErrorMsgSlice
        /\ diag.path = "resolution" =>
              \E c1, c2 \in {Slice(e, n) : e \in ErrorTexts, n \in 0..CauseSlice} :
                  diag.detail = WebAppFailedText \o c1 \o AppText \o c2

====
